---------------------------- MODULE Spec2Model ----------------------------
(***************************************************************************)
(* Model of src/native/ffsubsync-wasm/src/lib.rs: the audio-to-subtitle    *)
(* alignment engine (WAV decoder, SRT codec, mask builders, FFT            *)
(* cross-correlation and drift search).                                    *)
(*                                                                         *)
(* Numeric conventions of the model                                        *)
(*  - f32 values that the code derives from 0/1 masks are kept as exact    *)
(*    rationals (numerator over a positive denominator); a drift ratio is  *)
(*    an integer number of thousandths (0.97 is 970).                      *)
(*  - The i64 -> f32 conversions of rewrite_srt are rounded to the 24-bit  *)
(*    significand of an f32 (round to nearest, ties to even).              *)
(*  - The forward transform, conjugate product and inverse transform of    *)
(*    rustfft are modelled by what they compute: the circular              *)
(*    cross-correlation of the two zero-padded buffers.                    *)
(***************************************************************************)
EXTENDS Integers, Sequences, FiniteSets, TLC

VARIABLES
    pc,             \* position of the running entry point
    \* ---- align_pcm / align_masks / correlate_masks
    audio,          \* audio mask (0/1 per frame)
    subs,           \* subtitle mask (0/1 per frame)
    frame_ms,       \* opts.frame_ms
    max_offset_ms,  \* opts.max_offset_ms, then the floored local of align_pcm
    gss,            \* opts.gss
    candidates,     \* ratios still to evaluate in the running pass
    best,           \* (offset_ms, ratio, score) kept by align_masks
    call,           \* what the last correlate_masks call saw and returned
    evals,          \* history: every candidate evaluated so far, in order
    result,         \* (offset_ms, drift, confidence) returned by align_masks
    \* ---- parse_wav
    buf,            \* the byte buffer
    wav,            \* the outcome of parse_wav
    \* ---- build_audio_mask
    pcm,            \* PCM samples
    sample_rate,    \* sample rate handed to build_audio_mask
    vad_aggr,       \* vad_aggressiveness
    audio_mask,     \* the mask returned by build_audio_mask
    \* ---- parse_srt / rewrite_srt
    input,          \* the subtitle text, as its lines()
    parsed,         \* the outcome of parse_srt
    offset_ms,      \* offset handed to rewrite_srt
    drift,          \* drift handed to rewrite_srt (thousandths)
    out             \* the cues rewrite_srt wrote

vars == <<pc, audio, subs, frame_ms, max_offset_ms, gss, candidates, best, call,
          evals, result, buf, wav, pcm, sample_rate, vad_aggr, audio_mask,
          input, parsed, offset_ms, drift, out>>

alignVars == <<audio, subs, frame_ms, max_offset_ms, gss, candidates, best, call,
               evals, result>>
wavVars == <<buf, wav>>
maskVars == <<pcm, sample_rate, vad_aggr, audio_mask>>
srtVars == <<input, parsed, offset_ms, drift, out>>

-----------------------------------------------------------------------------
(* Bounds of the model *)

MaxMaskLen == 3

-----------------------------------------------------------------------------
(* Arithmetic helpers *)

Abs(x) == IF x < 0 THEN -x ELSE x
Max(a, b) == IF a >= b THEN a ELSE b
Min(a, b) == IF a <= b THEN a ELSE b
CeilDiv(a, b) == (a + b - 1) \div b

RECURSIVE GCD(_, _)
GCD(a, b) == IF b = 0 THEN a ELSE GCD(b, a % b)

RECURSIVE SumSeq(_)
SumSeq(s) == IF s = <<>> THEN 0 ELSE Head(s) + SumSeq(Tail(s))

\* A rational num/den, den > 0, in lowest terms.
Rat(n, d) == LET g == GCD(Abs(n), d) IN [num |-> n \div g, den |-> d \div g]

\* a < b for non-negative rationals, by their continued fractions (no
\* cross-multiplication, so no product leaves the integer range).
RECURSIVE RatLessNN(_, _, _, _)
RatLessNN(a, b, c, d) ==
    LET qa == a \div b
        qc == c \div d
        ra == a % b
        rc == c % d
    IN IF qa # qc THEN qa < qc
       ELSE IF rc = 0 THEN FALSE
       ELSE IF ra = 0 THEN TRUE
       ELSE RatLessNN(d, rc, b, ra)

RatLess(x, y) ==
    IF x.num < 0 /\ y.num >= 0 THEN TRUE
    ELSE IF x.num >= 0 /\ y.num < 0 THEN FALSE
    ELSE IF x.num < 0 THEN RatLessNN(-y.num, y.den, -x.num, x.den)
    ELSE RatLessNN(x.num, x.den, y.num, y.den)

\* f32::MIN, the initial best score: below every score the code computes.
F32_MIN == -2147483647
RatMin == [num |-> F32_MIN, den |-> 1]
RatZero == [num |-> 0, den |-> 1]
RatOne == [num |-> 1, den |-> 1]


-----------------------------------------------------------------------------
(* Activity masks.  A mask handed to correlate_masks is a record           *)
(* [num, den]: element i has the value num[i] / den.                       *)

Unit(mask) == [num |-> mask, den |-> 1]

\* mask.get(idx), with the default of unwrap_or (idx counts from 0)
MaskGet(mask, idx, default) ==
    IF idx >= 0 /\ idx < Len(mask) THEN mask[idx + 1] ELSE default

resample_mask(mask, ratio) ==
    IF ratio <= 0 \/ mask = <<>> THEN Unit(mask)
    ELSE LET new_len == Max(1, CeilDiv(Len(mask) * ratio, 1000))
             \* src_pos = i / ratio = (1000 * i) / ratio thousandths
             Sample(i) ==
                 LET idx == (1000 * i) \div ratio
                     frac == (1000 * i) % ratio   \* numerator of frac, over ratio
                     a == MaskGet(mask, idx, 0)
                     b == MaskGet(mask, idx + 1, a)
                 IN a * (ratio - frac) + b * frac
         IN [num |-> [k \in 1..new_len |-> Sample(k - 1)], den |-> ratio]

\* The subtitle mask a candidate ratio is correlated with.
Stretched(mask, ratio) ==
    IF Abs(ratio - 1000) < 1 THEN Unit(mask) ELSE resample_mask(mask, ratio)

-----------------------------------------------------------------------------
(* correlate_masks *)

RECURSIVE Pow2From(_, _)
Pow2From(p, n) == IF p >= n THEN p ELSE Pow2From(2 * p, n)
next_power_of_two(n) == Pow2From(1, n)

\* fa and fb: the mask in the real parts of a zero buffer of fft_len entries
Padded(mask, fft_len) == [i \in 0..(fft_len - 1) |-> MaskGet(mask, i, 0)]

\* fft.process(fa), fft.process(fb), fa[i] * conj(fb[i]), ifft.process(fa) and
\* the 1/fft_len scale: entry m of the result is sum_n fa[(n + m) mod fft_len] * fb[n].
\* The values are numerators over the subtitle mask's denominator.
CircularCorrelation(a, b, fft_len) ==
    LET fa == Padded(a, fft_len)
        fb == Padded(b, fft_len)
    IN [m \in 0..(fft_len - 1) |->
           SumSeq([k \in 1..fft_len |-> fa[((k - 1) + m) % fft_len] * fb[k - 1]])]

\* The lag window test of the search loop.
InWindow_absent(lag, max_offset_frames) == TRUE
InWindow(lag, max_offset_frames) == Abs(lag) <= max_offset_frames

\* The search loop over corr, from index i on.
RECURSIVE ScanFrom(_, _, _, _, _)
ScanFrom(corr, i, base, max_offset_frames, st) ==
    IF i \notin DOMAIN corr THEN st
    ELSE LET lag == i - base
             val == corr[i]
             st2 == IF ~InWindow(lag, max_offset_frames) THEN st
                    ELSE IF val > st.best_score
                         THEN [best_score |-> val, best_idx |-> i,
                               second_best |-> st.best_score]
                    ELSE IF val > st.second_best
                         THEN [st EXCEPT !.second_best = val]
                    ELSE st
         IN ScanFrom(corr, i + 1, base, max_offset_frames, st2)

\* (..).min(1.0)
MinOne_absent(x) == x
MinOne(x) == IF RatLess(RatOne, x) THEN RatOne ELSE x

\* The confidence of the winner.  best_score and second_best are numerators
\* over s.den * norm; best_score is finite whenever a candidate was scored,
\* and the zero-lag index base is always scored.
Confidence(best_score, second_best, norm, s) ==
    LET R == s.den
        mass == Max(SumSeq(s.num), R)            \* subs.sum().max(1.0), over R
        sec == Max(second_best, -(R * norm))       \* second_best.max(-1.0)
        gap == Abs(best_score - sec)
    IN MinOne(Rat(6 * Abs(best_score) * R + 4 * gap * mass, 10 * norm * R * mass))

\* From the search result st on: the lag of the winner, its offset and its
\* confidence.
Returned(st, corr, norm, s, fms) ==
    LET lag_frames == st.best_idx - (Len(s.num) - 1)
    IN [ok |-> TRUE, offset_ms |-> lag_frames * fms,
        confidence |-> Confidence(st.best_score, st.second_best, norm, s),
        corr |-> corr, norm |-> norm, stretched |-> s]

\* From the correlation array on: the normalisation and the windowed search.
Searched(corr, a, s, fms, max_off) ==
    LET norm == Max(Min(Len(a), Len(s.num)), 1)
        max_offset_frames == CeilDiv(max_off, fms)
        base == Len(s.num) - 1
    IN Returned(ScanFrom(corr, 0, base, max_offset_frames,
                         [best_score |-> F32_MIN, best_idx |-> base,
                          second_best |-> F32_MIN]),
                corr, norm, s, fms)

correlate_masks(a, s, fms, max_off) ==
    IF a = <<>> \/ s.num = <<>>
    THEN [ok |-> FALSE, offset_ms |-> 0, confidence |-> RatZero,
          corr |-> <<>>, norm |-> 1, stretched |-> s]
    ELSE LET conv_len == Len(a) + Len(s.num) - 1
             fft_len == next_power_of_two(conv_len)
         IN Searched(CircularCorrelation(a, s.num, fft_len), a, s, fms, max_off)

-----------------------------------------------------------------------------
(* align_pcm (from the floor of max_offset_ms on) and align_masks *)

CoarseRatios == <<970, 985, 1000, 1015, 1030>>

\* score > best.2 and score > best_score
Better_orEqual(score, best_score) == ~RatLess(score, best_score)
Better(score, best_score) == RatLess(best_score, score)

\* [low, drift, high] of the refinement pass: step 0.005, clamped to [0.95, 1.05]
RefineRatios(d) == <<Max(d - 5, 950), d, Min(d + 5, 1050)>>

NoCall == [ok |-> FALSE, offset_ms |-> 0, confidence |-> RatZero,
           corr |-> <<>>, norm |-> 1, stretched |-> Unit(<<>>)]

\* One iteration of either candidate loop: correlate the stretched mask and
\* keep the candidate if it beats the best so far.
Evaluate(ratio) ==
    \E r \in {correlate_masks(audio, Stretched(subs, ratio), frame_ms, max_offset_ms)} :
       /\ call' = r
       /\ evals' = Append(evals, [ratio |-> ratio, ok |-> r.ok,
                                  offset_ms |-> r.offset_ms, score |-> r.confidence])
       /\ best' = IF r.ok /\ Better(r.confidence, best.score)
                  THEN [offset_ms |-> r.offset_ms, ratio |-> ratio, score |-> r.confidence]
                  ELSE best

\* The variables of the other entry points, while one entry point runs.
IdleAlign ==
    /\ audio = <<>> /\ subs = <<>> /\ frame_ms = 10 /\ max_offset_ms = 60000
    /\ gss = FALSE /\ candidates = <<>> /\ evals = <<>> /\ call = NoCall
    /\ best = [offset_ms |-> 0, ratio |-> 1000, score |-> RatMin]
    /\ result = [offset_ms |-> 0, drift |-> 1000, confidence |-> RatZero]
IdleWav == buf = <<>> /\ wav = [kind |-> "none", msg |-> "", pcm |-> <<>>, sample_rate |-> 0]
IdleMask == pcm = <<>> /\ sample_rate = 16000 /\ vad_aggr = 2 /\ audio_mask = <<>>
IdleSrt ==
    /\ input = <<>> /\ parsed = [kind |-> "none", msg |-> "", subs |-> <<>>] /\ offset_ms = 0 /\ drift = 1000
    /\ out = <<>>

Masks(n) == UNION {[1..k -> {0, 1}] : k \in 0..n}

InitAlign ==
    /\ pc = "align_pcm"
    /\ audio \in Masks(MaxMaskLen)
    /\ subs \in Masks(MaxMaskLen)
    /\ frame_ms \in {400, 1000}
    /\ max_offset_ms \in {0, 1500}
    /\ gss \in BOOLEAN
    /\ candidates = <<>>
    /\ best = [offset_ms |-> 0, ratio |-> 1000, score |-> RatMin]
    /\ call = NoCall
    /\ evals = <<>>
    /\ result = [offset_ms |-> 0, drift |-> 1000, confidence |-> RatZero]
    /\ IdleWav /\ IdleMask /\ IdleSrt

\* align_pcm floors max_offset_ms and calls align_masks, which sets up its
\* candidate list and its initial best.
AlignPcm ==
    /\ pc = "align_pcm"
    /\ max_offset_ms' = Max(max_offset_ms, 1000)
    /\ candidates' = IF gss THEN CoarseRatios ELSE <<1000>>
    /\ best' = [offset_ms |-> 0, ratio |-> 1000, score |-> RatMin]
    /\ pc' = "coarse"
    /\ UNCHANGED <<audio, subs, frame_ms, gss, call, evals, result>>

\* One iteration of the coarse loop; after the last one the refinement list
\* is built around the coarse winner (gss) or the loop is skipped.
CoarseStep ==
    /\ pc = "coarse"
    /\ candidates # <<>>
    /\ Evaluate(Head(candidates))
    /\ IF Tail(candidates) # <<>>
       THEN candidates' = Tail(candidates) /\ pc' = "coarse"
       ELSE IF gss
            THEN candidates' = RefineRatios(best'.ratio) /\ pc' = "refine"
            ELSE candidates' = <<>> /\ pc' = "finish"
    /\ UNCHANGED <<audio, subs, frame_ms, max_offset_ms, gss, result>>

\* One iteration of the refinement loop.
RefineStep ==
    /\ pc = "refine"
    /\ candidates # <<>>
    /\ Evaluate(Head(candidates))
    /\ candidates' = Tail(candidates)
    /\ pc' = IF Tail(candidates) # <<>> THEN "refine" ELSE "finish"
    /\ UNCHANGED <<audio, subs, frame_ms, max_offset_ms, gss, result>>

\* best_score.max(0.0).min(1.0)
ClampUnit(x) == IF RatLess(x, RatZero) THEN RatZero ELSE MinOne(x)

Finish ==
    /\ pc = "finish"
    /\ result' = [offset_ms |-> best.offset_ms, drift |-> best.ratio,
                  confidence |-> ClampUnit(best.score)]
    /\ pc' = "done"
    /\ UNCHANGED <<audio, subs, frame_ms, max_offset_ms, gss, candidates, best,
                   call, evals>>

NextAlign ==
    \/ AlignPcm /\ UNCHANGED <<wavVars, maskVars, srtVars>>
    \/ CoarseStep /\ UNCHANGED <<wavVars, maskVars, srtVars>>
    \/ RefineStep /\ UNCHANGED <<wavVars, maskVars, srtVars>>
    \/ Finish /\ UNCHANGED <<wavVars, maskVars, srtVars>>

SpecAlign == InitAlign /\ [][NextAlign]_vars

-----------------------------------------------------------------------------
(* Text: a string is a sequence of one-character strings, a text is the    *)
(* sequence of its lines().                                                *)

DigitChars == <<"0", "1", "2", "3", "4", "5", "6", "7", "8", "9">>
IsDigit(c) == \E d \in 1..10 : DigitChars[d] = c
DigitVal(c) == (CHOOSE d \in 1..10 : DigitChars[d] = c) - 1
IsSpace(c) == c = " "

\* str::trim, str::trim_start, str::trim_end
RECURSIVE TrimStart(_)
TrimStart(s) == IF s # <<>> /\ IsSpace(Head(s)) THEN TrimStart(Tail(s)) ELSE s
RECURSIVE TrimEnd(_)
TrimEnd(s) ==
    IF s # <<>> /\ IsSpace(s[Len(s)]) THEN TrimEnd(SubSeq(s, 1, Len(s) - 1)) ELSE s
Trim(s) == TrimEnd(TrimStart(s))

\* str::split on a set of separator characters: the parts, from position i on,
\* cur being the part under construction
RECURSIVE SplitChars(_, _, _, _)
SplitChars(s, seps, i, cur) ==
    IF i > Len(s) THEN <<cur>>
    ELSE IF s[i] \in seps THEN <<cur>> \o SplitChars(s, seps, i + 1, <<>>)
    ELSE SplitChars(s, seps, i + 1, Append(cur, s[i]))

\* str::split("-->")
Arrow == <<"-", "-", ">">>
RECURSIVE SplitArrow(_, _, _)
SplitArrow(s, i, cur) ==
    IF i > Len(s) THEN <<cur>>
    ELSE IF i + 2 <= Len(s) /\ SubSeq(s, i, i + 2) = Arrow
         THEN <<cur>> \o SplitArrow(s, i + 3, <<>>)
    ELSE SplitArrow(s, i + 1, Append(cur, s[i]))

\* str::parse::<i64>: an optional sign and at least one digit, nothing else
RECURSIVE DigitsValue(_, _)
DigitsValue(s, acc) ==
    IF s = <<>> THEN acc ELSE DigitsValue(Tail(s), 10 * acc + DigitVal(Head(s)))
AllDigits(s) == s # <<>> /\ \A k \in 1..Len(s) : IsDigit(s[k])
ParseI64(s) ==
    IF s # <<>> /\ Head(s) \in {"-", "+"}
    THEN IF AllDigits(Tail(s))
         THEN [some |-> TRUE,
               val |-> IF Head(s) = "-" THEN -DigitsValue(Tail(s), 0)
                       ELSE DigitsValue(Tail(s), 0)]
         ELSE [some |-> FALSE, val |-> 0]
    ELSE IF AllDigits(s) THEN [some |-> TRUE, val |-> DigitsValue(s, 0)]
    ELSE [some |-> FALSE, val |-> 0]

\* i64::to_string of a non-negative number, and "{:0w}"
RECURSIVE Decimal(_)
Decimal(n) ==
    IF n < 10 THEN <<DigitChars[n + 1]>>
    ELSE Append(Decimal(n \div 10), DigitChars[(n % 10) + 1])
RECURSIVE ZeroPad(_, _)
ZeroPad(s, w) == IF Len(s) >= w THEN s ELSE ZeroPad(<<"0">> \o s, w)

-----------------------------------------------------------------------------
(* parse_timecode, format_time *)

None == [some |-> FALSE, val |-> 0]

TimecodeOf(h, m, sec, ms) ==
    IF h.some /\ m.some /\ sec.some /\ ms.some
    THEN [some |-> TRUE, val |-> ((h.val * 3600 + m.val * 60 + sec.val) * 1000) + ms.val]
    ELSE None

TimecodeOfParts(parts) ==
    IF Len(parts) # 4 THEN None
    ELSE TimecodeOf(ParseI64(parts[1]), ParseI64(parts[2]), ParseI64(parts[3]),
                    ParseI64(parts[4]))

parse_timecode(tc) == TimecodeOfParts(SplitChars(tc, {":", ","}, 1, <<>>))

FormatFields(total_ms) ==
    ZeroPad(Decimal(total_ms \div 3600000), 2) \o <<":">>
    \o ZeroPad(Decimal((total_ms \div 60000) % 60), 2) \o <<":">>
    \o ZeroPad(Decimal((total_ms \div 1000) % 60), 2) \o <<",">>
    \o ZeroPad(Decimal(total_ms % 1000), 3)

format_time(ms) == FormatFields(Max(ms, 0))

-----------------------------------------------------------------------------
(* parse_srt *)

IsBlank(line) == Trim(line) = <<>>

SrtErr(msg) == [kind |-> "Err", msg |-> msg, subs |-> <<>>]

\* The inner loop: the index after the text lines that start at j (a blank
\* line that ends them is consumed).
RECURSIVE TextEnd(_, _)
TextEnd(lines, j) ==
    IF j > Len(lines) THEN j
    ELSE IF IsBlank(lines[j]) THEN j + 1
    ELSE TextEnd(lines, j + 1)

RECURSIVE TextLines(_, _)
TextLines(lines, j) ==
    IF j > Len(lines) \/ IsBlank(lines[j]) THEN <<>>
    ELSE <<lines[j]>> \o TextLines(lines, j + 1)

\* let _idx_line = lines.next(): the first line of a block is consumed unread.
ConsumesIndexLine(line) == TRUE

\* The outer loop, from line i on (lines count from 1).
RECURSIVE ParseFrom(_, _, _)
CueOf(lines, t, parts, subsSoFar) ==
    IF Len(parts) # 2 THEN SrtErr("invalid time line")
    ELSE IF ~parse_timecode(Trim(parts[1])).some THEN SrtErr("bad start time")
    ELSE IF ~parse_timecode(Trim(parts[2])).some THEN SrtErr("bad end time")
    ELSE ParseFrom(lines, TextEnd(lines, t + 1),
                   Append(subsSoFar,
                          [start_ms |-> parse_timecode(Trim(parts[1])).val,
                           end_ms |-> parse_timecode(Trim(parts[2])).val,
                           text |-> TextLines(lines, t + 1)]))

Finished(subsSoFar) ==
    IF subsSoFar = <<>> THEN SrtErr("no subtitles parsed")
    ELSE [kind |-> "Ok", msg |-> "", subs |-> subsSoFar]

\* A block whose timing line is at index t.
Block(lines, t, subsSoFar) ==
    IF t > Len(lines) THEN Finished(subsSoFar)
    ELSE CueOf(lines, t, SplitArrow(Trim(lines[t]), 1, <<>>), subsSoFar)

ParseFrom(lines, i, subsSoFar) ==
    IF i > Len(lines) THEN Finished(subsSoFar)
    ELSE IF IsBlank(lines[i]) THEN ParseFrom(lines, i + 1, subsSoFar)
    ELSE Block(lines, IF ConsumesIndexLine(lines[i]) THEN i + 1 ELSE i, subsSoFar)

parse_srt(lines) == ParseFrom(lines, 1, <<>>)

-----------------------------------------------------------------------------
(* f32 arithmetic of rewrite_srt.  A value is [q, r]: q + r/1000 with      *)
(* 0 <= r < 1000.  Values of magnitude 2^23 or more are rounded to the f32 *)
(* grid (nearest, ties to even); below 2^23 the fraction is kept exact.    *)

Whole(n) == [q |-> n, r |-> 0]
Negate(v) == IF v.r = 0 THEN [q |-> -v.q, r |-> 0] ELSE [q |-> -v.q - 1, r |-> 1000 - v.r]
MaxV(v, w) == IF v.q > w.q \/ (v.q = w.q /\ v.r >= w.r) THEN v ELSE w

\* The spacing of f32 values around the magnitude m >= 2^23
RECURSIVE UlpFrom(_, _)
UlpFrom(m, u) == IF m \div u < 16777216 THEN u ELSE UlpFrom(m, 2 * u)

\* m (non-negative) rounded to a multiple of u
RoundToUlp(m, u) ==
    LET lower == (m.q \div u) * u
        twice == 2 * ((m.q - lower) * 1000 + m.r)
    IN IF twice < u * 1000 THEN Whole(lower)
       ELSE IF twice > u * 1000 THEN Whole(lower + u)
       ELSE IF (lower \div u) % 2 = 0 THEN Whole(lower)
       ELSE Whole(lower + u)

RoundMagnitude(m) == IF m.q < 8388608 THEN m ELSE RoundToUlp(m, UlpFrom(m.q, 1))

F32Round(v) == IF v.q < 0 THEN Negate(RoundMagnitude(Negate(v))) ELSE RoundMagnitude(v)

\* n as f32, for an integer n
ToF32(n) == F32Round(Whole(n)).q

\* x * drift for an f32 integer x and a drift in thousandths
MulRatio(x, ratio) ==
    F32Round([q |-> (x \div 1000) * ratio + (((x % 1000) * ratio) \div 1000),
              r |-> ((x % 1000) * ratio) % 1000])

\* v + (n as f32)
AddOffset(v, n) == F32Round([q |-> v.q + ToF32(n), r |-> v.r])

\* (f32 value) as i64: truncation toward zero
AsI64(v) == IF v.q >= 0 \/ v.r = 0 THEN v.q ELSE v.q + 1

-----------------------------------------------------------------------------
(* rewrite_srt *)

\* (t_ms as f32) * drift + offset_ms as f32
Shifted(t_ms, offset, ratio) == AddOffset(MulRatio(ToF32(t_ms), ratio), offset)

\* (..).max(0.0)
ClampStart(v) == MaxV(v, Whole(0))

\* (..).max(start as f32)
ClampEnd(v, start) == MaxV(v, Whole(ToF32(start)))

NewStart(s, offset, ratio) == AsI64(ClampStart(Shifted(s.start_ms, offset, ratio)))
NewEnd(s, offset, ratio) ==
    AsI64(ClampEnd(Shifted(s.end_ms, offset, ratio), NewStart(s, offset, ratio)))

\* s.text.trim(), as lines: text is the cue's lines joined by "\n"
RECURSIVE DropLeadingBlank(_)
DropLeadingBlank(ls) ==
    IF ls # <<>> /\ IsBlank(Head(ls)) THEN DropLeadingBlank(Tail(ls)) ELSE ls
RECURSIVE DropTrailingBlank(_)
DropTrailingBlank(ls) ==
    IF ls # <<>> /\ IsBlank(ls[Len(ls)])
    THEN DropTrailingBlank(SubSeq(ls, 1, Len(ls) - 1)) ELSE ls
TrimmedEnds(ls) ==
    IF ls = <<>> THEN << <<>> >>
    ELSE IF Len(ls) = 1 THEN <<Trim(ls[1])>>
    ELSE <<TrimStart(ls[1])>> \o SubSeq(ls, 2, Len(ls) - 1) \o <<TrimEnd(ls[Len(ls)])>>
TrimText(ls) == TrimmedEnds(DropTrailingBlank(DropLeadingBlank(ls)))

\* The lines pushed for cue number k (counting from 1): the index, the timing
\* line, the trimmed text and the empty line of "\n\n".
WrittenCue(k, s, offset, ratio) ==
    <<Decimal(k),
      format_time(NewStart(s, offset, ratio)) \o <<" ">> \o Arrow \o <<" ">>
          \o format_time(NewEnd(s, offset, ratio))>>
    \o TrimText(s.text) \o << <<>> >>

RECURSIVE WrittenFrom(_, _, _, _)
WrittenFrom(cues, k, offset, ratio) ==
    IF k > Len(cues) THEN <<>>
    ELSE WrittenCue(k, cues[k], offset, ratio) \o WrittenFrom(cues, k + 1, offset, ratio)

\* out.trim_end()
TrimDocEnd(ls) ==
    IF DropTrailingBlank(ls) = <<>> THEN <<>>
    ELSE SubSeq(DropTrailingBlank(ls), 1, Len(DropTrailingBlank(ls)) - 1)
         \o <<TrimEnd(DropTrailingBlank(ls)[Len(DropTrailingBlank(ls))])>>

rewrite_srt(cues, offset, ratio) == TrimDocEnd(WrittenFrom(cues, 1, offset, ratio))

-----------------------------------------------------------------------------
(* parse_srt followed by rewrite_srt, as align_pcm runs them *)

MaxLines == 5

BlankLine == <<>>
SpaceLine == <<" ">>
IndexLine == <<"7">>
TextLine == <<" ", "H", "i", " ">>
\* 00:00:01,000 --> 00:00:02,500
TimingPlain == <<"0", "0", ":", "0", "0", ":", "0", "1", ",", "0", "0", "0", " ", "-", "-", ">", " ", "0", "0", ":", "0", "0", ":", "0", "2", ",", "5", "0", "0">>
\* 05:00:00,001 --> 05:00:00,003   (past 2^24 ms)
TimingLate == <<"0", "5", ":", "0", "0", ":", "0", "0", ",", "0", "0", "1", " ", "-", "-", ">", " ", "0", "5", ":", "0", "0", ":", "0", "0", ",", "0", "0", "3">>
\* 0:0:3,7-->00:00:01,000   (unpadded fields, no spaces, end before start)
TimingTerse == <<"0", ":", "0", ":", "3", ",", "7", "-", "-", ">", "0", "0", ":", "0", "0", ":", "0", "1", ",", "0", "0", "0">>
\* 00:00:01.000 --> 00:00:02,500   (three fields in the start timecode)
TimingBad == <<"0", "0", ":", "0", "0", ":", "0", "1", ".", "0", "0", "0", " ", "-", "-", ">", " ", "0", "0", ":", "0", "0", ":", "0", "2", ",", "5", "0", "0">>

SrtLines ==
    {BlankLine, SpaceLine, IndexLine, TextLine, TimingPlain, TimingLate,
     TimingTerse, TimingBad}

SrtTexts == UNION {[1..k -> SrtLines] : k \in 0..MaxLines}

InitSrt ==
    /\ pc = "parse_srt"
    /\ input \in SrtTexts
    /\ parsed = [kind |-> "none", msg |-> "", subs |-> <<>>]
    /\ offset_ms = 0 /\ drift = 1000 /\ out = <<>>
    /\ IdleAlign /\ IdleWav /\ IdleMask

\* let subtitles = parse_srt(srt)?
ParseSrt ==
    /\ pc = "parse_srt"
    /\ parsed' = parse_srt(input)
    /\ pc' = IF parsed'.kind = "Ok" THEN "rewrite_srt" ELSE "failed"
    /\ UNCHANGED <<input, offset_ms, drift, out>>

\* let shifted = rewrite_srt(&subtitles, offset_ms, drift), for an offset and
\* a drift out of the given sets
Rewrite(offsets, ratios) ==
    /\ pc = "rewrite_srt"
    /\ \E o \in offsets, d \in ratios :
          /\ offset_ms' = o
          /\ drift' = d
          /\ out' = rewrite_srt(parsed.subs, o, d)
    /\ pc' = "done"
    /\ UNCHANGED <<input, parsed>>

RewriteSrt == Rewrite({0, 500}, {1000})

NextSrt ==
    \/ ParseSrt /\ UNCHANGED <<alignVars, wavVars, maskVars>>
    \/ RewriteSrt /\ UNCHANGED <<alignVars, wavVars, maskVars>>

SpecSrt == InitSrt /\ [][NextSrt]_vars

-----------------------------------------------------------------------------
(* rewrite_srt on cue lists, offsets and drifts of any sign *)

MaxCues == 2

Cue(a, b) == [start_ms |-> a, end_ms |-> b, text |-> <<TextLine>>]

CueSet ==
    {Cue(1000, 2500), Cue(3007, 1000), Cue(0, 0), Cue(-1000, 500),
     Cue(16777215, 16777217), Cue(18000001, 18000003), Cue(30000000, 20000001)}

CueLists == UNION {[1..k -> CueSet] : k \in 0..MaxCues}

InitRewrite ==
    /\ pc = "rewrite_srt"
    /\ input = <<>>
    /\ \E cues \in CueLists : parsed = [kind |-> "Ok", msg |-> "", subs |-> cues]
    /\ offset_ms = 0 /\ drift = 1000 /\ out = <<>>
    /\ IdleAlign /\ IdleWav /\ IdleMask

RewriteCues ==
    Rewrite({-20000000, -2000, -1, 0, 500, 3000001}, {-1000, 0, 970, 1000, 1035})

NextRewrite == RewriteCues /\ UNCHANGED <<alignVars, wavVars, maskVars>>

SpecRewrite == InitRewrite /\ [][NextRewrite]_vars

-----------------------------------------------------------------------------
(* parse_wav.  A buffer is a sequence of bytes; byte i of the code (from 0) *)
(* is buf[i + 1].                                                          *)

InBounds(b, i) == 0 <= i /\ i < Len(b)
read_u16(b, i) == b[i + 1] + 256 * b[i + 2]
read_u32(b, i) == b[i + 1] + 256 * b[i + 2] + 65536 * b[i + 3] + 16777216 * b[i + 4]
\* i16::from_le_bytes
read_i16(b, i) ==
    IF read_u16(b, i) >= 32768 THEN read_u16(b, i) - 65536 ELSE read_u16(b, i)

TagRIFF == <<82, 73, 70, 70>>
TagWAVE == <<87, 65, 86, 69>>
TagFmt == <<102, 109, 116, 32>>
TagData == <<100, 97, 116, 97>>

WavErr(msg) == [kind |-> "Err", msg |-> msg, pcm |-> <<>>, sample_rate |-> 0]
\* an index past the end of the slice: the thread panics
WavPanic == [kind |-> "Panic", msg |-> "index out of bounds", pcm |-> <<>>, sample_rate |-> 0]

NoFmt == [audio_format |-> 0, channels |-> 0, sample_rate |-> 0, bits_per_sample |-> 0]
NoData == [found |-> FALSE, offset |-> 0, size |-> 0]

\* The byte indices that the "fmt " arm reads
FmtReads(chunk_start) ==
    {chunk_start + k : k \in {0, 1, 2, 3, 4, 5, 6, 7, 14, 15}}

FmtOf(b, chunk_start) ==
    [audio_format |-> read_u16(b, chunk_start),
     channels |-> read_u16(b, chunk_start + 2),
     sample_rate |-> read_u32(b, chunk_start + 4),
     bits_per_sample |-> read_u16(b, chunk_start + 14)]

\* After the chunk loop: the checks and the sample loop.
Decoded(b, fmt, data) ==
    IF ~data.found THEN WavErr("missing data chunk")
    ELSE IF fmt.audio_format # 1 THEN WavErr("only PCM is supported")
    ELSE IF fmt.bits_per_sample # 16 THEN WavErr("only 16-bit PCM supported")
    ELSE IF fmt.channels # 1 THEN WavErr("only mono audio supported")
    ELSE IF fmt.sample_rate = 0 THEN WavErr("invalid sample rate")
    ELSE IF data.offset + data.size > Len(b) THEN WavErr("data chunk truncated")
    ELSE IF \E i \in 0..((data.size \div 2) - 1) :
               ~InBounds(b, data.offset + i * 2 + 1)
         THEN WavPanic
    ELSE [kind |-> "Ok", msg |-> "",
          pcm |-> [k \in 1..(data.size \div 2) |-> read_i16(b, data.offset + (k - 1) * 2)],
          sample_rate |-> fmt.sample_rate]

\* The chunk loop, from idx on.
RECURSIVE ChunkLoop(_, _, _)
ChunkAt(b, idx, fmt, chunk_id, chunk_size, chunk_start) ==
    IF chunk_start + chunk_size > Len(b) THEN Decoded(b, fmt, NoData)
    ELSE IF chunk_id = TagFmt
         THEN IF \E i \in FmtReads(chunk_start) : ~InBounds(b, i)
              THEN WavPanic
              ELSE ChunkLoop(b, chunk_start + chunk_size, FmtOf(b, chunk_start))
    ELSE IF chunk_id = TagData
         THEN Decoded(b, fmt, [found |-> TRUE, offset |-> chunk_start, size |-> chunk_size])
    ELSE ChunkLoop(b, chunk_start + chunk_size, fmt)

ChunkLoop(b, idx, fmt) ==
    IF idx + 8 > Len(b) THEN Decoded(b, fmt, NoData)
    ELSE ChunkAt(b, idx, fmt, SubSeq(b, idx + 1, idx + 4), read_u32(b, idx + 4), idx + 8)

parse_wav(b) ==
    IF Len(b) < 44 THEN WavErr("buffer too small")
    ELSE IF SubSeq(b, 1, 4) # TagRIFF \/ SubSeq(b, 9, 12) # TagWAVE
         THEN WavErr("missing RIFF/WAVE header")
    ELSE ChunkLoop(b, 12, NoFmt)

\* Buffers: an outer header, up to MaxChunks chunks, trailing zero bytes.
MaxChunks == 3

LE16(n) == <<n % 256, n \div 256>>
LE32(n) == <<n % 256, (n \div 256) % 256, (n \div 65536) % 256, n \div 16777216>>
Zeros(n) == [k \in 1..n |-> 0]
Chunk(tag, declared, payload) == tag \o LE32(declared) \o payload
FmtPayload(format, channels, rate, bits) ==
    LE16(format) \o LE16(channels) \o LE32(rate) \o LE32(rate * 2) \o LE16(2) \o LE16(bits)

WavChunks ==
    {Chunk(TagFmt, 16, FmtPayload(1, 1, 16000, 16)),
     Chunk(TagFmt, 16, FmtPayload(1, 2, 16000, 16)),
     Chunk(TagFmt, 0, <<>>),
     Chunk(TagFmt, 8, SubSeq(FmtPayload(1, 1, 16000, 16), 1, 8)),
     Chunk(TagData, 4, <<1, 0, 255, 255>>),
     Chunk(TagData, 100, <<1, 0, 255, 255>>),
     Chunk(<<76, 73, 83, 84>>, 16, Zeros(16))}

RECURSIVE Concat(_)
Concat(ss) == IF ss = <<>> THEN <<>> ELSE Head(ss) \o Concat(Tail(ss))

WavBuffers ==
    {magic \o Zeros(4) \o TagWAVE \o Concat(chunks) \o Zeros(pad) :
        magic \in {TagRIFF, <<82, 73, 70, 88>>},
        chunks \in UNION {[1..k -> WavChunks] : k \in 0..MaxChunks},
        pad \in {0, 20}}

InitWav ==
    /\ pc = "parse_wav"
    /\ buf \in WavBuffers
    /\ wav = [kind |-> "none", msg |-> "", pcm |-> <<>>, sample_rate |-> 0]
    /\ IdleAlign /\ IdleMask /\ IdleSrt

\* let (pcm, sr) = parse_wav(wav_bytes)?
ParseWav ==
    /\ pc = "parse_wav"
    /\ wav' = parse_wav(buf)
    /\ pc' = "done"
    /\ UNCHANGED buf

NextWav == ParseWav /\ UNCHANGED <<alignVars, maskVars, srtVars>>

SpecWav == InitWav /\ [][NextWav]_vars

-----------------------------------------------------------------------------
(* build_audio_mask.  Energies are exact rationals: with K the product of   *)
(* the full frame width and the last frame's sample count, the energy of a  *)
(* frame is Scaled / K.  The f32 roundings of the code are not modelled   *)
(* here: on the buffers below they move no energy across the threshold    *)
(* (equal energies are exact in f32, and exact zeros stay zeros).         *)

RECURSIVE SumSquares(_, _, _)
SumSquares(samples, from, to) ==
    IF from >= to THEN 0
    ELSE samples[from + 1] * samples[from + 1] + SumSquares(samples, from + 1, to)

RECURSIVE MaxOf(_, _)
MaxOf(s, acc) == IF s = <<>> THEN acc ELSE MaxOf(Tail(s), Max(acc, Head(s)))
RECURSIVE MinOf(_)
MinOf(s) == IF Len(s) = 1 THEN s[1] ELSE Min(Head(s), MinOf(Tail(s)))

\* threshold, times 100 * n * K, from the scaled energies E (n = Len(E) > 0)
Threshold(E, aggr) ==
    LET n == Len(E)
        floor == MinOf(E)
        base == 100 * n * floor + 10 * Abs(SumSeq(E) - n * floor) * (3 + aggr)
    IN IF MaxOf(E, 0) > 0 THEN Max(base, n * MaxOf(E, 0) * (4 + 2 * aggr)) ELSE 0

\* e >= threshold, for the energy e of one frame
AtLeast(e, n, threshold) == 100 * n * e >= threshold

Gate(E, threshold) ==
    [k \in 1..Len(E) |-> IF AtLeast(E[k], Len(E), threshold) THEN 1 ELSE 0]

Energies(samples, frame_samples, total_frames) ==
    LET last == Len(samples) - (total_frames - 1) * frame_samples
    IN [f \in 1..total_frames |->
           LET start == (f - 1) * frame_samples
               end == Min(Len(samples), start + frame_samples)
           IN SumSquares(samples, start, end)
                 * (IF end - start = frame_samples THEN last ELSE frame_samples)]

Framed(samples, frame_samples, aggr) ==
    IF samples = <<>> THEN <<>>
    ELSE Gate(Energies(samples, frame_samples, CeilDiv(Len(samples), frame_samples)),
              Threshold(Energies(samples, frame_samples,
                                 CeilDiv(Len(samples), frame_samples)), aggr))

build_audio_mask(samples, rate, fms, aggr) ==
    Framed(samples, Max(1, (Max(rate, 8000) * Max(fms, 2)) \div 1000), Min(aggr, 3))

\* PCM buffers: up to MaxSegments runs of constant amplitude, SegmentLen
\* samples each, the last one of TailLen samples in half of the buffers.
MaxSegments == 3
SegmentLen == 16
TailLen == 5

PcmOf(amps, tail) ==
    [k \in 1..((Len(amps) - 1) * SegmentLen + tail) |-> amps[((k - 1) \div SegmentLen) + 1]]

PcmBuffers ==
    {PcmOf(amps, tail) :
        amps \in UNION {[1..k -> {0, 2, -10}] : k \in 1..MaxSegments},
        tail \in {SegmentLen, TailLen}}

InitMask ==
    /\ pc = "build_audio_mask"
    /\ pcm \in PcmBuffers
    /\ sample_rate \in {0, 16000}
    /\ frame_ms \in {2, 10}
    /\ vad_aggr \in {0, 2, 3, 9}
    /\ audio_mask = <<>>
    /\ audio = <<>> /\ subs = <<>> /\ max_offset_ms = 60000
    /\ gss = FALSE /\ candidates = <<>> /\ evals = <<>> /\ call = NoCall
    /\ best = [offset_ms |-> 0, ratio |-> 1000, score |-> RatMin]
    /\ result = [offset_ms |-> 0, drift |-> 1000, confidence |-> RatZero]
    /\ IdleWav /\ IdleSrt

\* let audio_mask = build_audio_mask(pcm, audio_sr, opts.frame_ms, opts.vad_aggressiveness)
BuildAudioMask ==
    /\ pc = "build_audio_mask"
    /\ audio_mask' = build_audio_mask(pcm, sample_rate, frame_ms, vad_aggr)
    /\ pc' = "done"
    /\ UNCHANGED <<pcm, sample_rate, vad_aggr>>

NextMask ==
    BuildAudioMask /\ UNCHANGED <<audio, subs, frame_ms, max_offset_ms, gss, candidates,
                                  best, call, evals, result, wavVars, srtVars>>

SpecMask == InitMask /\ [][NextMask]_vars

-----------------------------------------------------------------------------
(* Properties of correlate_masks and align_masks (checked under SpecAlign) *)

\* sum_n audio[n + lag] * subtitle[n], the naive linear cross-correlation
\* (numerator over the subtitle mask's denominator)
NaiveCorrelation(a, b, lag) ==
    SumSeq([k \in 1..Len(b) |-> MaskGet(a, (k - 1) + lag, 0) * b[k]])

OffsetBound == CeilDiv(max_offset_ms, frame_ms) * frame_ms

RatInUnit(x) == ~RatLess(x, RatZero) /\ ~RatLess(RatOne, x)

\* subtitle mask = audio mask delayed by d frames
IsDelayedBy(a, b, d) ==
    /\ Len(b) = Len(a) + d
    /\ \A k \in 1..Len(b) : b[k] = IF k <= d THEN 0 ELSE a[k - d]

\* lag -d is the unique best alignment of the naive cross-correlation
UniqueBestAt(a, b, d) ==
    \A lag \in (-(Len(b) - 1))..(Len(a) - 1) :
        lag # -d => NaiveCorrelation(a, b, lag) < NaiveCorrelation(a, b, -d)

\* C1: with drift search off, a subtitle mask that is the audio mask delayed
\* by D = d * frame_ms <= max_offset_ms, with a unique best alignment, is
\* answered by offset_ms = -D and drift = 1.0.
C1_DelayedMaskOffset ==
    (pc = "done" /\ ~gss) =>
        \A d \in 0..MaxMaskLen :
            (/\ audio # <<>>
             /\ IsDelayedBy(audio, subs, d)
             /\ d * frame_ms <= max_offset_ms
             /\ UniqueBestAt(audio, subs, d))
            => (result.offset_ms = -(d * frame_ms) /\ result.drift = 1000)

\* C6: the offset returned by correlate_masks and by align_masks is at most
\* ceil(max_offset_ms / frame_ms) * frame_ms in absolute value (max_offset_ms
\* floored to 1000, drift search on or off).
C6_OffsetWithinSearchBound ==
    /\ call.ok => Abs(call.offset_ms) <= OffsetBound
    /\ pc = "done" => Abs(result.offset_ms) <= OffsetBound

\* C6 witness: a finished alignment of non-empty masks whose correlation peak
\* lies outside the lag window and whose offset sits on the bound.
C6_Witness ==
    /\ pc = "done" /\ gss /\ call.ok
    /\ Abs(result.offset_ms) = OffsetBound
    /\ \E i \in DOMAIN call.corr :
          /\ Abs(i - (Len(call.stretched.num) - 1)) * frame_ms > OffsetBound
          /\ \A j \in DOMAIN call.corr : call.corr[j] <= call.corr[i]
          /\ call.corr[i] > 0

\* C7: the confidence returned by correlate_masks and the confidence returned
\* by align_masks lie in [0, 1], also when no candidate was scored.
C7_ConfidenceInUnitInterval ==
    /\ call.ok => RatInUnit(call.confidence)
    /\ pc = "done" => RatInUnit(result.confidence)

\* C7 witness: a finished alignment whose last correlation scored a single
\* in-window index (runner-up missing), where 0.6*normalized + 0.4*gap exceeds 1.
C7_Witness ==
    /\ pc = "done" /\ call.ok
    /\ Len(audio) = 1 /\ Len(subs) = 1 /\ audio[1] = 1 /\ subs[1] = 1
    /\ call.confidence = RatOne /\ result.confidence = RatOne

\* C7 second case: no candidate was scored (both masks empty).
C7_NoCandidateWitness ==
    pc = "done" /\ (\A k \in 1..Len(evals) : ~evals[k].ok) /\ result.confidence = RatZero

\* C8: the correlation array holds, at index (len(subtitle) - 1) + lag, the
\* naive linear cross-correlation at that lag, for every lag in
\* -(len(subtitle) - 1) .. len(audio) - 1 (both over the same normalisation).
C8_ArrayIsNaiveCorrelation ==
    call.ok =>
        LET b == call.stretched.num
        IN \A lag \in (-(Len(b) - 1))..(Len(audio) - 1) :
              call.corr[(Len(b) - 1) + lag] = NaiveCorrelation(audio, b, lag)

\* The index of the winner among the evaluated candidates: the first one
\* whose score no other candidate exceeds.
IsFirstBest(k) ==
    /\ evals[k].ok
    /\ \A j \in 1..Len(evals) : evals[j].ok => ~RatLess(evals[k].score, evals[j].score)
    /\ \A j \in 1..(k - 1) : evals[j].ok => RatLess(evals[j].score, evals[k].score)

\* C10: with drift search on, the coarse pass evaluates 0.97, 0.985, 1.0,
\* 1.015, 1.03, the refinement pass three more ratios, and the returned
\* (offset_ms, drift) is that of the evaluated candidate with the highest
\* score, the first evaluated one among those that tie for it.
C10_FirstHighestScoreWins ==
    (pc = "done" /\ gss) =>
        /\ Len(evals) = 8
        /\ \A k \in 1..5 : evals[k].ratio = CoarseRatios[k]
        /\ \A k \in 1..Len(evals) :
              IsFirstBest(k) =>
                 result.offset_ms = evals[k].offset_ms /\ result.drift = evals[k].ratio
        /\ (audio # <<>> /\ subs # <<>>) => \E k \in 1..Len(evals) : IsFirstBest(k)

\* C10 witness: a finished drift search where the winner is not the first
\* candidate evaluated and a later candidate with another ratio and another
\* offset ties with it.
C10_Witness ==
    /\ pc = "done" /\ gss
    /\ \E k \in 2..Len(evals) :
          /\ IsFirstBest(k)
          /\ result.drift = evals[k].ratio
          /\ \E j \in (k + 1)..Len(evals) :
                /\ evals[j].score = evals[k].score
                /\ evals[j].ratio # evals[k].ratio
                /\ evals[j].offset_ms # evals[k].offset_ms

-----------------------------------------------------------------------------
(* Properties of parse_srt and rewrite_srt *)

\* The cues that the written text denotes: the output read back.
Reread == parse_srt(out)

WellFormed(s) == 0 <= s.start_ms /\ s.start_ms <= s.end_ms

\* C4: parsing and then serialising with offset_ms = 0 and drift = 1.0 emits,
\* for each cue in order, timecodes that denote the cue's original start and
\* end milliseconds (stated for cues with 0 <= start <= end, the cues of the
\* data model).
C4_RoundTripKeepsTimecodes ==
    (pc = "done" /\ offset_ms = 0 /\ drift = 1000
        /\ \A k \in 1..Len(parsed.subs) : WellFormed(parsed.subs[k]))
    => /\ Reread.kind = "Ok"
       /\ Len(Reread.subs) = Len(parsed.subs)
       /\ \A k \in 1..Len(parsed.subs) :
             /\ Reread.subs[k].start_ms = parsed.subs[k].start_ms
             /\ Reread.subs[k].end_ms = parsed.subs[k].end_ms

\* start_ms * drift + offset_ms in exact arithmetic (drift in thousandths)
ExactShifted(t_ms, offset, ratio) ==
    [q |-> (t_ms \div 1000) * ratio + (((t_ms % 1000) * ratio) \div 1000) + offset,
     r |-> ((t_ms % 1000) * ratio) % 1000]

\* The two inequalities alone: they hold in every state of SpecRewrite.
WrittenCuesOrdered ==
    (pc = "done" /\ parsed.subs # <<>>) =>
        /\ Reread.kind = "Ok"
        /\ \A k \in 1..Len(Reread.subs) :
              /\ Reread.subs[k].start_ms >= 0
              /\ Reread.subs[k].end_ms >= Reread.subs[k].start_ms

\* C5: for every cue list, offset (negative ones too) and drift, every cue
\* written by rewrite_srt has new_start >= 0 and new_end >= new_start, where
\* new_start = max(0, start_ms*drift + offset_ms) and
\* new_end = max(new_start, end_ms*drift + offset_ms), truncated to integers.
C5_WrittenCuesFollowFormula ==
    (pc = "done" /\ parsed.subs # <<>>) =>
        /\ Reread.kind = "Ok"
        /\ Len(Reread.subs) = Len(parsed.subs)
        /\ \A k \in 1..Len(parsed.subs) :
              LET new == Reread.subs[k]
                  old == parsed.subs[k]
              IN /\ new.start_ms >= 0
                 /\ new.end_ms >= new.start_ms
                 /\ new.start_ms = Max(0, AsI64(ExactShifted(old.start_ms, offset_ms, drift)))
                 /\ new.end_ms = Max(new.start_ms,
                                     AsI64(ExactShifted(old.end_ms, offset_ms, drift)))

IsTimingLine(line) ==
    LET parts == SplitArrow(Trim(line), 1, <<>>)
    IN /\ Len(parts) = 2
       /\ parse_timecode(Trim(parts[1])).some
       /\ parse_timecode(Trim(parts[2])).some

IsTextLine(line) == ~IsBlank(line) /\ Len(SplitArrow(Trim(line), 1, <<>>)) = 1

\* C9: the index line is optional: a text whose first block starts directly
\* with its timing line, followed by one or more text lines, parses exactly as
\* the same text with an index line in front.
C9_IndexLineOptional ==
    (/\ pc # "parse_srt"
     /\ Len(input) >= 2 /\ IsTimingLine(input[1]) /\ IsTextLine(input[2]))
    => parsed = parse_srt(<<IndexLine>> \o input)

-----------------------------------------------------------------------------
(* Properties of parse_wav and build_audio_mask *)

\* C2: a non-empty PCM buffer whose samples are all zero gives a mask whose
\* elements are all 0.0, whatever the sample rate, frame_ms and aggressiveness.
C2_SilentBufferMaskIsZero ==
    (pc = "done" /\ pcm # <<>> /\ \A k \in 1..Len(pcm) : pcm[k] = 0)
    => \A f \in 1..Len(audio_mask) : audio_mask[f] = 0

\* C3: parse_wav returns samples and a rate, or an error value; it never
\* reads a byte at or past the end of the buffer.
C3_ParseWavNeverPanics ==
    pc = "done" => wav.kind \in {"Ok", "Err"}

=============================================================================
